---- MODULE Spec2Model ----
(***************************************************************************)
(* AeonPay backend: the voucher / mandate / payment-confirmation core.     *)
(*                                                                         *)
(* The database tables of models.py are the state.  Each route handler of  *)
(* routes/payments.py, routes/vouchers.py and routes/mandates.py is one    *)
(* action.  A handler body is an "async def" without any await, so within  *)
(* one server process it runs to its commit without interleaving: the      *)
(* sequential specifications SpecPay, SpecVoucher and SpecMandate model    *)
(* that.  The Race specifications split a handler at its query and at its  *)
(* commit, each request with its own SQLAlchemy session (get_db), which is *)
(* what several server instances on one database do.                       *)
(*                                                                         *)
(* Money amounts are integers (whole currency units).  Identifiers that    *)
(* the code draws with uuid4 are the position of the row in its table.     *)
(***************************************************************************)
EXTENDS Integers, Sequences, FiniteSets, TLC

\* ------------------------------------------------------------------ bounds
MaxTxns == 2            \* transactions created by createIntent
MaxVouchers == 2        \* voucher rows
MaxRedemptions == 2     \* voucher_redemptions rows
MaxLegs == 2            \* legs of one redeem batch
MaxMembers == 2         \* member ids of one mint / create request
MaxTime == 1            \* clock values 0 .. MaxTime
MaxMandates == 2        \* mandate rows
MaxExecutions == 2      \* mandate_executions rows

\* ------------------------------------------------- directory (seeded rows)
Users == {"u1", "u2"}
Plans == {"p1"}
Merchants == {"m1"}
\* plan.created_by of the seeded plan
created_by(plan_id) == "u1"

\* request amounts (no route validates the sign): negative, zero, positive
Amounts == {-1, 0, 2}
Times == 0 .. MaxTime
\* PaymentConfirm.status is any string; Transaction.status documents three.
ConfirmStatuses == {"completed", "failed", "pending", "refunded"}
\* PaymentConfirm.rrn_stub: Optional[str]
RrnStubs == {"null", "rrn1"}
Modes == {"vouchers"}
Reqs == {1, 2}

VARIABLES
    transactions,   \* table transactions: sequence of rows, id = position
    ledger,         \* table ledger_entries: sequence of rows
    vouchers,       \* table vouchers: sequence of rows, id = position
    redemptions,    \* table voucher_redemptions
    mandates,       \* table mandates: sequence of rows, id = position
    executions,     \* table mandate_executions
    minted,         \* history: minted[v] is the amount voucher v was minted with
    created_cap,    \* history: created_cap[m] is the cap mandate m was created with
    now,            \* datetime.utcnow()
    resp,           \* the response of the last request served sequentially
    sess,           \* sess[r]: the SQLAlchemy session and position of request r
    idem,           \* table idempotent_requests: sequence of rows
    hist,           \* history: what the requests carrying each key have done
    last_req        \* history: the payload of the last redeem request

vars == <<transactions, ledger, vouchers, redemptions, mandates, executions,
          minted, created_cap, now, resp, sess, idem, hist, last_req>>

payVars == <<transactions, ledger>>
voucherVars == <<vouchers, redemptions, minted>>
mandateVars == <<mandates, executions, created_cap>>
tables == <<payVars, voucherVars, mandateVars>>

\* ----------------------------------------------------------------- helpers
RECURSIVE SumAmounts(_)
SumAmounts(s) == IF s = <<>> THEN 0 ELSE Head(s).amount + SumAmounts(Tail(s))

Idle == [pc |-> "idle"]

\* resp: the operation, the HTTP status code and the response body.
NoResp == [op |-> "none", code |-> 0, body |-> [detail |-> ""]]

\* raise HTTPException(status_code=code, detail=detail)
Error(op, code, detail) == [op |-> op, code |-> code, body |-> [detail |-> detail]]

Ok(op, body) == [op |-> op, code |-> 200, body |-> body]

\* ------------------------------------------------ services/idempotency.py
\* the value of the Idempotency-Key header; NoKey: the header is absent
NoKey == "none"
Keys == {"k1", "k2"}

NoHist == [key |-> NoKey,
           first |-> [k \in Keys |-> NoResp],
           executed |-> [k \in Keys |-> 0]]
NoReq == [voucher_ids |-> <<>>, amounts |-> <<>>, merchant_id |-> ""]

\* db.query(IdempotentRequest).filter(idempotency_key == key)
RowsOf(table, key) == SelectSeq(table, LAMBDA x : x.idempotency_key = key)

\* JSONResponse(content=...): status 200 and the content as the body
JSONResponse(content) == [op |-> "replay", code |-> 200, body |-> content]

\* The lookup that never finds a stored response.
Cached_never(key) == FALSE

\* get_response returns a response when a row exists (its response_data is a
\* non-empty dict for every response a handler stores), else None.
Cached(key) == RowsOf(idem, key) # <<>>

\* The lookup that answers with the row stored last, whatever its key.
get_response_latest(key) == JSONResponse(idem[Len(idem)].response_data)

\* JSONResponse(content=request.response_data) of the first row with the key
get_response(key) == JSONResponse(Head(RowsOf(idem, key)).response_data)

\* The JSON column encodes response_data with json.dumps, which raises on a
\* Decimal or a datetime: the .dict() of a TransactionResponse, a
\* VoucherResponse or a MandateResponse holds both; floats, strings and
\* lists of them encode.
JsonSerializable(body) ==
    /\ "transaction" \notin DOMAIN body
    /\ "vouchers" \in DOMAIN body => body.vouchers = <<>>
    /\ "mandates" \in DOMAIN body => body.mandates = <<>>

\* The store that inserts whether or not the key has a row.
store_response_always(table, key, response_data) ==
    Append(table, [idempotency_key |-> key, response_data |-> response_data])

\* store_response: the table after the call, which inserts only when no row
\* has the key
store_response(table, key, response_data) ==
    IF RowsOf(table, key) # <<>> THEN table
    ELSE Append(table, [idempotency_key |-> key, response_data |-> response_data])

\* The handler end that stores the response before it is encoded, so that a
\* request that ends in an error leaves a record.
Respond_record_then_fail(key, op, response_data) ==
    IF key = NoKey
    THEN /\ resp' = Ok(op, response_data)
         /\ UNCHANGED idem
    ELSE /\ idem' = store_response(idem, key, response_data)
         /\ resp' = IF RowsOf(idem, key) = <<>> /\ ~JsonSerializable(response_data)
                    THEN Error(op, 500,
                               "Object of type Decimal is not JSON serializable")
                    ELSE Ok(op, response_data)

\* The end of every handler: "if hasattr(request.state, 'idempotency_key'):
\* store_idempotent_response(...)" and "return response_data".  The handler
\* has committed before; an INSERT that cannot encode raises out of it.
Respond(key, op, response_data) ==
    IF key = NoKey
    THEN /\ resp' = Ok(op, response_data)
         /\ UNCHANGED idem
    ELSE IF RowsOf(idem, key) = <<>> /\ ~JsonSerializable(response_data)
    THEN /\ resp' = Error(op, 500, "Object of type Decimal is not JSON serializable")
         /\ UNCHANGED idem
    ELSE /\ idem' = store_response(idem, key, response_data)
         /\ resp' = Ok(op, response_data)

\* raise HTTPException: nothing is stored
Refuse(op, code, detail) ==
    /\ resp' = Error(op, code, detail)
    /\ UNCHANGED idem

\* history of the requests that carried a key: the first response with
\* status 200, and how many of them changed a table (counted up to 2)
Record(key) ==
    IF key = NoKey THEN [hist EXCEPT !.key = NoKey]
    ELSE [key |-> key,
          first |-> IF hist.first[key] = NoResp /\ resp'.code = 200
                    THEN [hist.first EXCEPT ![key] = resp']
                    ELSE hist.first,
          executed |-> IF tables' # tables
                       THEN [hist.executed EXCEPT ![key] = IF @ < 2 THEN @ + 1 ELSE @]
                       ELSE hist.executed]

\* main.py idempotency_middleware: a request whose key has a stored response
\* is answered with it; any other request goes to its handler (call_next).
idempotency_middleware(key, call_next) ==
    IF key # NoKey /\ Cached(key)
    THEN /\ resp' = get_response(key)
         /\ UNCHANGED <<tables, now, sess, idem>>
         /\ hist' = Record(key)
    ELSE /\ call_next
         /\ hist' = Record(key)

Init ==
    /\ transactions = <<>>
    /\ ledger = <<>>
    /\ vouchers = <<>>
    /\ redemptions = <<>>
    /\ mandates = <<>>
    /\ executions = <<>>
    /\ minted = <<>>
    /\ created_cap = <<>>
    /\ now = 0
    /\ resp = NoResp
    /\ sess = [r \in Reqs |-> Idle]
    /\ idem = <<>>
    /\ hist = NoHist
    /\ last_req = NoReq

\* ------------------------------------------------------ services/ledger.py
\* A posting whose credit leg carries another amount than its debit leg.
create_ledger_entries_unequal(transaction_id, amount, account_debit, account_credit) ==
    << [txn_id |-> transaction_id, account |-> account_debit,
        leg |-> "debit", amount |-> amount],
       [txn_id |-> transaction_id, account |-> account_credit,
        leg |-> "credit", amount |-> amount + 1] >>

\* The two rows create_ledger_entries adds to the session.
create_ledger_entries(transaction_id, amount, account_debit, account_credit) ==
    << [txn_id |-> transaction_id, account |-> account_debit,
        leg |-> "debit", amount |-> amount],
       [txn_id |-> transaction_id, account |-> account_credit,
        leg |-> "credit", amount |-> amount] >>

\* func.sum(LedgerEntry.amount) over the rows of one leg, or Decimal('0')
LegTotal(leg) == SumAmounts(SelectSeq(ledger, LAMBDA e : e.leg = leg))

\* the same over the rows of one leg of one account
AccountLegTotal(account, leg) ==
    SumAmounts(SelectSeq(ledger, LAMBDA e : e.account = account /\ e.leg = leg))

get_account_balance(account) ==
    AccountLegTotal(account, "credit") - AccountLegTotal(account, "debit")

verify_ledger_balance == LegTotal("debit") = LegTotal("credit")

get_transaction_ledger_entries(transaction_id) ==
    LET mine(e) == e.txn_id = transaction_id
    IN  SelectSeq(ledger, mine)

\* ---------------------------------------------------- routes/payments.py
\* f"plan_{plan_id}" and f"merchant_{merchant_id}": the prefix and the id
PlanAccount(plan_id) == <<"plan", plan_id>>
MerchantAccount(merchant_id) == <<"merchant", merchant_id>>

GuardrailThreshold == 250
\* The flag raised from the threshold on.
guardrail_required_from_threshold(amount) == amount >= GuardrailThreshold

\* float(intent_data.amount) > 250.0; float() is exact on whole amounts
guardrail_required(amount) == amount > GuardrailThreshold

TransactionResponse(t) == t

create_payment_intent(key, plan_id, merchant_id, amount, mode, intent_id) ==
    /\ Len(transactions) < MaxTxns
    /\ UNCHANGED <<ledger, voucherVars, mandateVars, now, sess>>
    /\ IF plan_id \notin Plans
       THEN /\ Refuse("createIntent", 404, "Plan not found")
            /\ UNCHANGED transactions
       ELSE IF merchant_id \notin Merchants
       THEN /\ Refuse("createIntent", 404, "Merchant not found")
            /\ UNCHANGED transactions
       ELSE IF \E i \in 1..Len(transactions) : transactions[i].intent_id = intent_id
       THEN \* intent_id is unique=True: the INSERT fails at commit
            /\ Refuse("createIntent", 500, "IntegrityError")
            /\ UNCHANGED transactions
       ELSE LET t == [id |-> Len(transactions) + 1,
                      intent_id |-> intent_id,
                      plan_id |-> plan_id,
                      merchant_id |-> merchant_id,
                      amount |-> amount,
                      mode |-> mode,
                      status |-> "pending",
                      rrn_stub |-> "null"]
            IN  /\ transactions' = Append(transactions, t)
                /\ Respond(key, "createIntent",
                               [intent_id |-> intent_id,
                                transaction |-> TransactionResponse(t),
                                guardrail_required |-> guardrail_required(amount)])

\* The lookup without its status filter.
FindPending_any_status(intent_id) ==
    {i \in 1..Len(transactions) : transactions[i].intent_id = intent_id}

\* db.query(Transaction).filter(intent_id == ..., status == "pending").first()
FindPending(intent_id) ==
    {i \in 1..Len(transactions) :
        /\ transactions[i].intent_id = intent_id
        /\ transactions[i].status = "pending"}

\* Posting whatever the confirmed status is.
ConfirmEntries_any_status(t, status) ==
    create_ledger_entries(t.id, t.amount, PlanAccount(t.plan_id),
                          MerchantAccount(t.merchant_id))

\* The ledger rows confirm adds to its session for transaction t.
ConfirmEntries(t, status) ==
    IF status = "completed"
    THEN create_ledger_entries(t.id, t.amount, PlanAccount(t.plan_id),
                               MerchantAccount(t.merchant_id))
    ELSE <<>>

ConfirmReq(intent_id, status, rrn_stub) ==
    [intent_id |-> intent_id, status |-> status, rrn_stub |-> rrn_stub]

confirm_payment(key, intent_id, status, rrn_stub) ==
    /\ UNCHANGED <<voucherVars, mandateVars, now, sess>>
    /\ IF FindPending(intent_id) = {}
       THEN /\ Refuse("confirm", 404, "Transaction not found or already processed")
            /\ UNCHANGED payVars
       ELSE LET i == CHOOSE i \in FindPending(intent_id) : TRUE
                t == transactions[i]
            IN  /\ transactions' = [transactions EXCEPT ![i].status = status,
                                                        ![i].rrn_stub = rrn_stub]
                /\ ledger' = ledger \o ConfirmEntries(t, status)
                /\ Respond(key, "confirm",
                               [transaction_id |-> t.id,
                                status |-> status,
                                rrn_stub |-> rrn_stub])

\* values of f"intent_{int(time.time())}_{random.randint(1000, 9999)}"
IntentIds == 1 .. MaxTxns
\* PaymentIntentCreate.amount: any Decimal
IntentAmounts == {-1, 2}

CreateIntent ==
    \E plan_id \in Plans \cup {"px"}, merchant_id \in Merchants \cup {"mx"},
       amount \in IntentAmounts, mode \in Modes, intent_id \in IntentIds :
        /\ idempotency_middleware(NoKey,
                create_payment_intent(NoKey, plan_id, merchant_id, amount, mode,
                                      intent_id))
        /\ UNCHANGED last_req

Confirm ==
    \E intent_id \in IntentIds, status \in ConfirmStatuses, rrn_stub \in RrnStubs :
        /\ idempotency_middleware(NoKey,
                confirm_payment(NoKey, intent_id, status, rrn_stub))
        /\ UNCHANGED last_req

NextPay == CreateIntent \/ Confirm

SpecPay == Init /\ [][NextPay]_vars

\* ------------------------------------------------------- payment claims
TxnIds == 1 .. Len(transactions)

DebitTotal == SumAmounts(SelectSeq(ledger, LAMBDA e : e.leg = "debit"))
CreditTotal == SumAmounts(SelectSeq(ledger, LAMBDA e : e.leg = "credit"))

\* C1: after any sequence of createIntent and confirm, the amounts of all
\* debit ledger entries and of all credit ledger entries have the same sum.
C1_LedgerBalanced == DebitTotal = CreditTotal

\* a completed transaction of non-zero amount has been posted
C1_Witness ==
    \E i \in TxnIds :
        /\ transactions[i].status = "completed"
        /\ transactions[i].amount # 0
        /\ DebitTotal # 0

EntriesOf(i) == {k \in 1..Len(ledger) : ledger[k].txn_id = transactions[i].id}

\* C2: a completed transaction has exactly two ledger entries, a debit on
\* plan_<plan> and a credit on merchant_<merchant>, both of the transaction's
\* amount; a transaction of any other status has none.
C2_CompletedIffPosted ==
    \A i \in TxnIds :
        LET t == transactions[i] IN
        IF t.status = "completed"
        THEN /\ Cardinality(EntriesOf(i)) = 2
             /\ \E d, c \in EntriesOf(i) :
                    /\ d # c
                    /\ ledger[d].leg = "debit"
                    /\ ledger[d].account = <<"plan", t.plan_id>>
                    /\ ledger[d].amount = t.amount
                    /\ ledger[c].leg = "credit"
                    /\ ledger[c].account = <<"merchant", t.merchant_id>>
                    /\ ledger[c].amount = t.amount
        ELSE EntriesOf(i) = {}

\* one transaction completed and posted, another one failed and not posted
C2_Witness ==
    \E i, j \in TxnIds :
        /\ transactions[i].status = "completed"
        /\ Cardinality(EntriesOf(i)) = 2
        /\ transactions[j].status = "failed"
        /\ EntriesOf(j) = {}

C4_ConfirmIsTerminal ==
    (resp.op = "confirm" /\ resp.code = 200) =>
        transactions[resp.body.transaction_id].status \in {"completed", "failed"}

\* ------------------------------------- confirm, one session per request
\* Request r runs confirm_payment up to its commit: the query (lines 79-85),
\* the attribute writes and the ledger rows added to the session (87-99).
ConfirmBegin(r, intent_id, status, rrn_stub) ==
    LET req == ConfirmReq(intent_id, status, rrn_stub) IN
    /\ sess[r].pc = "idle"
    /\ UNCHANGED <<payVars, voucherVars, mandateVars, now, resp, idem, hist, last_req>>
    /\ IF FindPending(intent_id) = {}
       THEN sess' = [sess EXCEPT ![r] =
                [pc |-> "done", req |-> req,
                 resp |-> Error("confirm", 404,
                                "Transaction not found or already processed")]]
       ELSE LET i == CHOOSE i \in FindPending(intent_id) : TRUE
                t == transactions[i]
            IN  sess' = [sess EXCEPT ![r] =
                    [pc |-> "confirm", req |-> req, txn |-> i, loaded |-> t,
                     new |-> ConfirmEntries(t, status)]]

\* The UPDATE a flush emits for a loaded row: only the attributes whose value
\* differs from the loaded one are set, WHERE id = the row's id.
FlushTransaction(row, loaded, status, rrn_stub) ==
    [row EXCEPT !.status = IF status # loaded.status THEN status ELSE @,
                !.rrn_stub = IF rrn_stub # loaded.rrn_stub THEN rrn_stub ELSE @]

\* The commit whose UPDATE has no WHERE clause: every row of the table gets
\* the status and the rrn_stub of the request.
ConfirmCommit_every_row(r) ==
    /\ sess[r].pc = "confirm"
    /\ UNCHANGED <<voucherVars, mandateVars, now, resp, idem, hist, last_req>>
    /\ LET s == sess[r] IN
       /\ transactions' = [i \in 1..Len(transactions) |->
                              [transactions[i] EXCEPT !.status = s.req.status,
                                                      !.rrn_stub = s.req.rrn_stub]]
       /\ ledger' = ledger \o s.new
       /\ sess' = [sess EXCEPT ![r] =
                [pc |-> "done", req |-> s.req,
                 resp |-> Ok("confirm",
                             [transaction_id |-> s.txn,
                              status |-> s.req.status,
                              rrn_stub |-> s.req.rrn_stub])]]

\* db.commit(), db.refresh(transaction) and the response (lines 101-114)
ConfirmCommit(r) ==
    /\ sess[r].pc = "confirm"
    /\ UNCHANGED <<voucherVars, mandateVars, now, resp, idem, hist, last_req>>
    /\ LET s == sess[r]
           row == FlushTransaction(transactions[s.txn], s.loaded,
                                   s.req.status, s.req.rrn_stub)
       IN  /\ transactions' = [transactions EXCEPT ![s.txn] = row]
           /\ ledger' = ledger \o s.new
           /\ sess' = [sess EXCEPT ![r] =
                    [pc |-> "done", req |-> s.req,
                     resp |-> Ok("confirm",
                                 [transaction_id |-> row.id,
                                  status |-> row.status,
                                  rrn_stub |-> row.rrn_stub])]]

ConfirmStart ==
    \E r \in Reqs, intent_id \in IntentIds, status \in ConfirmStatuses,
       rrn_stub \in RrnStubs :
        ConfirmBegin(r, intent_id, status, rrn_stub)

ConfirmEnd == \E r \in Reqs : ConfirmCommit(r)

NextConfirmRace == CreateIntent \/ ConfirmStart \/ ConfirmEnd

SpecConfirmRace == Init /\ [][NextConfirmRace]_vars

Succeeded(r, op) ==
    sess[r].pc = "done" /\ sess[r].resp.op = op /\ sess[r].resp.code = 200

\* C5: of two concurrent confirms with status completed for one pending
\* intent at most one succeeds, and no transaction has more than one
\* debit/credit pair.
C5_OneConfirmWins ==
    /\ \A i \in TxnIds : Cardinality(EntriesOf(i)) <= 2
    /\ \A r1, r2 \in Reqs :
        (/\ r1 # r2
         /\ Succeeded(r1, "confirm") /\ Succeeded(r2, "confirm")
         /\ sess[r1].req.status = "completed"
         /\ sess[r2].req.status = "completed")
        => sess[r1].req.intent_id # sess[r2].req.intent_id

\* ---------------------------------------------------- routes/vouchers.py
\* VoucherCreate.merchant_list
MerchantLists == {<<"m1">>}
\* member_user_ids name known users and unknown ones, possibly repeated
MemberIds == {"u1", "ux"}
MemberLists == UNION {[1..n -> MemberIds] : n \in 0..MaxMembers}

RECURSIVE KnownMembers(_)
\* the member ids the loop does not skip (lines 36-40), in request order
KnownMembers(ids) ==
    IF ids = <<>> THEN <<>>
    ELSE IF Head(ids) \in Users THEN <<Head(ids)>> \o KnownMembers(Tail(ids))
    ELSE KnownMembers(Tail(ids))

VoucherResponse(v) == v

\* The ownership check that lets every caller through.
IsCreator_anyone(plan_id, current_user) == TRUE

\* plan.created_by != current_user.id, negated
IsCreator(plan_id, current_user) == created_by(plan_id) = current_user

mint_vouchers(key, current_user, plan_id, member_user_ids, amount, merchant_list, expires_at) ==
    LET members == KnownMembers(member_user_ids)
        made == [k \in 1..Len(members) |->
                    [id |-> Len(vouchers) + k,
                     plan_id |-> plan_id,
                     member_user_id |-> members[k],
                     amount |-> amount,
                     merchant_list |-> merchant_list,
                     expires_at |-> expires_at,
                     state |-> "active"]]
    IN
    /\ Len(vouchers) + Len(members) <= MaxVouchers
    /\ UNCHANGED <<payVars, mandateVars, now, sess>>
    /\ IF plan_id \notin Plans
       THEN /\ Refuse("mint", 404, "Plan not found")
            /\ UNCHANGED voucherVars
       ELSE IF ~IsCreator(plan_id, current_user)
       THEN /\ Refuse("mint", 403, "Only plan creator can mint vouchers")
            /\ UNCHANGED voucherVars
       ELSE /\ vouchers' = vouchers \o made
            /\ minted' = minted \o [k \in 1..Len(members) |-> amount]
            /\ UNCHANGED redemptions
            /\ Respond(key, "mint", [vouchers |-> [k \in 1..Len(made) |->
                                                    VoucherResponse(made[k])]])

\* A request that is refused (unknown plan, caller not the creator) is
\* refused before its other fields are read: one such request per caller and
\* plan is enumerated.
Accepted(current_user, plan_id) ==
    plan_id \in Plans /\ created_by(plan_id) = current_user

Mint ==
    \E current_user \in Users, plan_id \in Plans \cup {"px"},
       member_user_ids \in MemberLists, amount \in Amounts,
       merchant_list \in MerchantLists, expires_at \in Times :
        /\ Accepted(current_user, plan_id)
              \/ (member_user_ids = <<>> /\ amount = 0 /\ expires_at = 0)
        /\ idempotency_middleware(NoKey,
                mint_vouchers(NoKey, current_user, plan_id, member_user_ids,
                              amount, merchant_list, expires_at))
        /\ UNCHANGED last_req

\* datetime.utcnow() advances
Tick ==
    /\ now < MaxTime
    /\ now' = now + 1
    /\ UNCHANGED <<payVars, voucherVars, mandateVars, resp, sess, idem, hist, last_req>>

\* A leg amount is a JSON value taken from the request dict unvalidated: an
\* integer, or a float, which Decimal compares with but does not subtract.
IntAmt(n) == [val |-> n, kind |-> "int"]
FloatAmt(n) == [val |-> n, kind |-> "float"]
LegAmounts == {IntAmt(n) : n \in Amounts \cup {1}} \cup {FloatAmt(1)}
VoucherIds == 1 .. MaxVouchers
RedeemMerchants == {"m1"}

\* The session of one redeem call: mem are the Voucher objects as the session
\* holds them (autoflush=False: the table is not written before the commit),
\* new are the VoucherRedemption rows added, redeemed / failed the result lists.
RedeemSession(db) == [mem |-> db, new |-> <<>>, redeemed |-> <<>>, failed |-> <<>>]

Failed(st, voucher_id, reason) ==
    [st EXCEPT !.failed = Append(@, [voucher_id |-> voucher_id, reason |-> reason])]

\* voucher.amount -= amount_to_redeem; if voucher.amount <= 0: state = "redeemed"
Debit(v, n) ==
    [v EXCEPT !.amount = @ - n,
              !.state = IF v.amount - n <= 0 THEN "redeemed" ELSE @]

\* One iteration of the loop of redeem_vouchers (lines 90-131).  The query
\* filters on the table's rows (db); the object it returns is the session's.
RedeemLeg(st, db, voucher_id, amt, merchant_id, time) ==
    IF ~(voucher_id \in 1..Len(db) /\ db[voucher_id].state = "active")
    THEN Failed(st, voucher_id, "Voucher not found or inactive")
    ELSE LET v == st.mem[voucher_id]
             redemption == [voucher_id |-> voucher_id, amount |-> amt.val,
                            merchant_id |-> merchant_id]
         IN  IF v.expires_at < time
             THEN Failed(st, voucher_id, "Voucher expired")
             ELSE IF amt.val > v.amount
             THEN Failed(st, voucher_id, "Insufficient voucher balance")
             ELSE IF amt.kind = "float"
             THEN \* db.add(redemption) is done, then Decimal -= float raises
                  Failed([st EXCEPT !.new = Append(@, redemption)], voucher_id,
                         "unsupported operand type(s)")
             ELSE [st EXCEPT
                     !.new = Append(@, redemption),
                     !.mem[voucher_id] = Debit(v, amt.val),
                     !.redeemed = Append(@, [voucher_id |-> voucher_id,
                                             amount |-> amt.val,
                                             remaining |-> v.amount - amt.val])]

RECURSIVE RedeemLoop_abort_on_failure(_, _, _, _, _, _)
\* The loop that stops at the first leg that fails.
RedeemLoop_abort_on_failure(st, db, voucher_ids, amounts, merchant_id, time) ==
    IF voucher_ids = <<>> \/ st.failed # <<>> THEN st
    ELSE RedeemLoop_abort_on_failure(
             RedeemLeg(st, db, Head(voucher_ids), Head(amounts), merchant_id, time),
             db, Tail(voucher_ids), Tail(amounts), merchant_id, time)

RECURSIVE RedeemLoop(_, _, _, _, _, _)
RedeemLoop(st, db, voucher_ids, amounts, merchant_id, time) ==
    IF voucher_ids = <<>> THEN st
    ELSE RedeemLoop(RedeemLeg(st, db, Head(voucher_ids), Head(amounts),
                              merchant_id, time),
                    db, Tail(voucher_ids), Tail(amounts), merchant_id, time)

\* The flush that writes every column of every object the session holds.
FlushVoucher_every_column(row, loaded, obj) ==
    [row EXCEPT !.amount = obj.amount, !.state = obj.state]

\* The UPDATE a flush emits for a Voucher object: the attributes whose value
\* differs from the loaded one are set, WHERE id = the row's id.
FlushVoucher(row, loaded, obj) ==
    [row EXCEPT !.amount = IF obj.amount # loaded.amount THEN obj.amount ELSE @,
                !.state = IF obj.state # loaded.state THEN obj.state ELSE @]

RedeemResult(st) ==
    [redeemed |-> st.redeemed, failed |-> st.failed,
     total_redeemed |-> Len(st.redeemed), total_failed |-> Len(st.failed)]

redeem_vouchers(key, voucher_ids, amounts, merchant_id) ==
    /\ UNCHANGED <<payVars, mandateVars, now, sess>>
    /\ IF Len(voucher_ids) # Len(amounts)
       THEN /\ Refuse("redeem", 400, "Voucher IDs and amounts must match")
            /\ UNCHANGED voucherVars
       ELSE LET st == RedeemLoop(RedeemSession(vouchers), vouchers, voucher_ids,
                                 amounts, merchant_id, now)
            IN  /\ Len(redemptions) + Len(st.new) <= MaxRedemptions
                /\ vouchers' = [v \in 1..Len(vouchers) |->
                                   FlushVoucher(vouchers[v], vouchers[v], st.mem[v])]
                /\ redemptions' = redemptions \o st.new
                /\ UNCHANGED minted
                /\ Respond(key, "redeem", [result |-> RedeemResult(st)])

\* batches whose two arrays have the same length
Redeem ==
    \E n \in 0..MaxLegs : \E voucher_ids \in [1..n -> VoucherIds],
       amounts \in [1..n -> LegAmounts], merchant_id \in RedeemMerchants :
        /\ idempotency_middleware(NoKey,
                redeem_vouchers(NoKey, voucher_ids, amounts, merchant_id))
        /\ UNCHANGED last_req

\* batches whose arrays differ in length (their contents are not read)
RedeemMismatch ==
    \E n, m \in 0..MaxLegs : \E merchant_id \in RedeemMerchants :
        /\ n # m
        /\ idempotency_middleware(NoKey,
                redeem_vouchers(NoKey, [k \in 1..n |-> 1],
                                [k \in 1..m |-> IntAmt(1)], merchant_id))
        /\ UNCHANGED last_req

NextVoucher == Mint \/ Redeem \/ RedeemMismatch \/ Tick

SpecVoucher == Init /\ [][NextVoucher]_vars

\* ------------------------------------- redeem batches, leg by leg
\* Vouchers minted by the plan's creator for one member, and redeem batches
\* whose payload is kept in last_req for the claims about single legs.
MintAmount == 2
RecordedLegAmounts == {IntAmt(1), IntAmt(2), FloatAmt(1)}

MintOne ==
    \E expires_at \in Times :
        /\ idempotency_middleware(NoKey,
                mint_vouchers(NoKey, "u1", "p1", <<"u1">>, MintAmount, <<"m1">>,
                              expires_at))
        /\ UNCHANGED last_req

RedeemRecorded ==
    \E n \in 0..MaxLegs : \E voucher_ids \in [1..n -> VoucherIds],
       amounts \in [1..n -> RecordedLegAmounts], merchant_id \in RedeemMerchants :
        /\ idempotency_middleware(NoKey,
                redeem_vouchers(NoKey, voucher_ids, amounts, merchant_id))
        /\ last_req' = [voucher_ids |-> voucher_ids, amounts |-> amounts,
                        merchant_id |-> merchant_id]

NextRedeemLegs == MintOne \/ RedeemRecorded \/ Tick

SpecRedeemLegs == Init /\ [][NextRedeemLegs]_vars

\* -------------------------------------- redeem, one session per request
\* Request r runs the loop of redeem_vouchers (lines 80-131) on the rows it
\* reads; loaded keeps the rows as read, for the flush.
RedeemBegin(r, voucher_ids, amounts, merchant_id) ==
    /\ sess[r].pc = "idle"
    /\ UNCHANGED <<payVars, voucherVars, mandateVars, now, resp, idem, hist, last_req>>
    /\ IF Len(voucher_ids) # Len(amounts)
       THEN sess' = [sess EXCEPT ![r] =
                [pc |-> "done",
                 resp |-> Error("redeem", 400, "Voucher IDs and amounts must match")]]
       ELSE sess' = [sess EXCEPT ![r] =
                [pc |-> "redeem", loaded |-> vouchers,
                 st |-> RedeemLoop(RedeemSession(vouchers), vouchers, voucher_ids,
                                   amounts, merchant_id, now)]]

\* db.commit() and the response (lines 133-148)
RedeemCommit(r) ==
    /\ sess[r].pc = "redeem"
    /\ Len(redemptions) + Len(sess[r].st.new) <= MaxRedemptions
    /\ UNCHANGED <<payVars, mandateVars, minted, now, resp, idem, hist, last_req>>
    /\ LET s == sess[r] IN
       /\ vouchers' = [v \in 1..Len(vouchers) |->
                          IF v <= Len(s.loaded)
                          THEN FlushVoucher(vouchers[v], s.loaded[v], s.st.mem[v])
                          ELSE vouchers[v]]
       /\ redemptions' = redemptions \o s.st.new
       /\ sess' = [sess EXCEPT ![r] =
                [pc |-> "done",
                 resp |-> Ok("redeem", [result |-> RedeemResult(s.st)])]]

\* A crash that leaves the first redemption row of the batch behind.
RedeemCrash_partial(r) ==
    /\ sess[r].pc = "redeem"
    /\ UNCHANGED <<payVars, mandateVars, vouchers, minted, now, resp, idem, hist,
                   last_req>>
    /\ redemptions' = redemptions \o (IF sess[r].st.new = <<>> THEN <<>>
                                       ELSE <<Head(sess[r].st.new)>>)
    /\ sess' = [sess EXCEPT ![r] =
            [pc |-> "crashed", lost |-> Len(sess[r].st.redeemed)]]

\* The process serving request r dies inside the loop or before db.commit()
\* (line 133): the session and its uncommitted transaction are gone; lost
\* counts the legs the loop had redeemed.
RedeemCrash(r) ==
    /\ sess[r].pc = "redeem"
    /\ UNCHANGED <<payVars, voucherVars, mandateVars, now, resp, idem, hist,
                   last_req>>
    /\ sess' = [sess EXCEPT ![r] =
            [pc |-> "crashed", lost |-> Len(sess[r].st.redeemed)]]

\* mint requests of the plan's creator with a positive amount
MintPositive ==
    \E member_user_ids \in MemberLists, amount \in {a \in Amounts : a > 0},
       merchant_list \in MerchantLists, expires_at \in Times :
        /\ idempotency_middleware(NoKey,
                mint_vouchers(NoKey, "u1", "p1", member_user_ids, amount,
                              merchant_list, expires_at))
        /\ UNCHANGED last_req

\* well-formed legs: positive integer amounts
PositiveLegAmounts == {a \in LegAmounts : a.kind = "int" /\ a.val > 0}

RedeemStart ==
    \E r \in Reqs, n \in 0..MaxLegs : \E voucher_ids \in [1..n -> VoucherIds],
       amounts \in [1..n -> PositiveLegAmounts], merchant_id \in RedeemMerchants :
        RedeemBegin(r, voucher_ids, amounts, merchant_id)

RedeemEnd == \E r \in Reqs : RedeemCommit(r)

NextRedeemRace == MintPositive \/ RedeemStart \/ RedeemEnd

SpecRedeemRace == Init /\ [][NextRedeemRace]_vars

\* ------------------------------ redeem batches that may die before commit
\* One request at a time runs the loop, then commits or dies; its outcome is
\* taken before the next request starts.  The clock stands still, so the
\* vouchers are minted with one expiry.
MintUnexpired ==
    /\ idempotency_middleware(NoKey,
            mint_vouchers(NoKey, "u1", "p1", <<"u1">>, MintAmount, <<"m1">>,
                          MaxTime))
    /\ UNCHANGED last_req

BatchStart ==
    \E n \in 0..MaxLegs : \E voucher_ids \in [1..n -> VoucherIds],
       amounts \in [1..n -> RecordedLegAmounts], merchant_id \in RedeemMerchants :
        RedeemBegin(1, voucher_ids, amounts, merchant_id)

BatchCommit == RedeemCommit(1)

BatchCrash == RedeemCrash(1)

\* the client has its answer, or has given up on the dead connection
BatchOver ==
    /\ sess[1].pc \in {"done", "crashed"}
    /\ sess' = [sess EXCEPT ![1] = Idle]
    /\ UNCHANGED <<tables, now, resp, idem, hist, last_req>>

NextRedeemCrash ==
    MintUnexpired \/ BatchStart \/ BatchCommit \/ BatchCrash \/ BatchOver

SpecRedeemCrash == Init /\ [][NextRedeemCrash]_vars

\* ---------------------------------------------------- routes/mandates.py
MandateResponse(m) == m

create_mandates(key, current_user, plan_id, member_user_ids, cap_amount, valid_from, valid_to) ==
    LET members == KnownMembers(member_user_ids)
        made == [k \in 1..Len(members) |->
                    [id |-> Len(mandates) + k,
                     plan_id |-> plan_id,
                     member_user_id |-> members[k],
                     cap_amount |-> cap_amount,
                     valid_from |-> valid_from,
                     valid_to |-> valid_to,
                     state |-> "active"]]
    IN
    /\ Len(mandates) + Len(members) <= MaxMandates
    /\ UNCHANGED <<payVars, voucherVars, now, sess>>
    /\ IF plan_id \notin Plans
       THEN /\ Refuse("create", 404, "Plan not found")
            /\ UNCHANGED mandateVars
       ELSE IF ~IsCreator(plan_id, current_user)
       THEN /\ Refuse("create", 403, "Only plan creator can create mandates")
            /\ UNCHANGED mandateVars
       ELSE /\ mandates' = mandates \o made
            /\ created_cap' = created_cap \o [k \in 1..Len(members) |-> cap_amount]
            /\ UNCHANGED executions
            /\ Respond(key, "create", [mandates |-> [k \in 1..Len(made) |->
                                                      MandateResponse(made[k])]])

\* The lookup without its state filter.
FindActiveMandate_any_state(mandate_id) ==
    {m \in 1..Len(mandates) : m = mandate_id}

\* db.query(Mandate).filter(id == mandate_id, state == "active").first()
FindActiveMandate(mandate_id) ==
    {m \in 1..Len(mandates) : m = mandate_id /\ mandates[m].state = "active"}

\* The cap check that lets every amount through.
ExceedsCap_never(amt, m) == FALSE

\* amount > mandate.cap_amount
ExceedsCap(amt, m) == amt.val > m.cap_amount

\* The execution that expires a used-up mandate and leaves its cap as it is.
DebitCap_state_only(m, n) ==
    [m EXCEPT !.state = IF m.cap_amount - n <= 0 THEN "expired" ELSE @]

\* mandate.cap_amount -= amount; if mandate.cap_amount <= 0: state = "expired"
DebitCap(m, n) ==
    [m EXCEPT !.cap_amount = @ - n,
              !.state = IF m.cap_amount - n <= 0 THEN "expired" ELSE @]

\* mandate_id = 0 is an absent or empty mandate_id; success is the draw of
\* random.choice([True, True, True, False]).
execute_mandate(key, mandate_id, amt, merchant_id, success) ==
    /\ Len(executions) < MaxExecutions
    /\ UNCHANGED <<payVars, voucherVars, now, sess>>
    /\ IF mandate_id = 0 \/ amt.val = 0
       THEN /\ Refuse("execute", 400, "Mandate ID and amount required")
            /\ UNCHANGED mandateVars
       ELSE IF FindActiveMandate(mandate_id) = {}
       THEN /\ Refuse("execute", 404, "Mandate not found or inactive")
            /\ UNCHANGED mandateVars
       ELSE IF ExceedsCap(amt, mandates[mandate_id])
       THEN /\ Refuse("execute", 400, "Amount exceeds mandate cap")
            /\ UNCHANGED mandateVars
       ELSE IF success /\ amt.kind = "float"
       THEN \* Decimal -= float raises: no commit, the session is dropped
            /\ Refuse("execute", 500, "unsupported operand type(s)")
            /\ UNCHANGED mandateVars
       ELSE LET execution == [id |-> Len(executions) + 1,
                              mandate_id |-> mandate_id,
                              amount |-> amt.val,
                              merchant_id |-> merchant_id,
                              status |-> IF success THEN "success" ELSE "failed"]
                m == IF success THEN DebitCap(mandates[mandate_id], amt.val)
                     ELSE mandates[mandate_id]
            IN  /\ executions' = Append(executions, execution)
                /\ mandates' = [mandates EXCEPT ![mandate_id] = m]
                /\ UNCHANGED created_cap
                /\ Respond(key, "execute",
                              [result |-> [mandate_id |-> mandate_id,
                                           amount |-> amt.val,
                                           status |-> execution.status,
                                           remaining_cap |-> m.cap_amount,
                                           execution_id |-> execution.id]])

CreateMandates ==
    \E current_user \in Users, plan_id \in Plans \cup {"px"},
       member_user_ids \in MemberLists, cap_amount \in Amounts,
       valid_from \in Times, valid_to \in Times :
        /\ Accepted(current_user, plan_id)
              \/ (member_user_ids = <<>> /\ cap_amount = 0
                    /\ valid_from = 0 /\ valid_to = 0)
        /\ idempotency_middleware(NoKey,
                create_mandates(NoKey, current_user, plan_id, member_user_ids,
                                cap_amount, valid_from, valid_to))
        /\ UNCHANGED last_req

Execute ==
    \E mandate_id \in 0..MaxMandates, amt \in LegAmounts,
       merchant_id \in RedeemMerchants, success \in BOOLEAN :
        /\ idempotency_middleware(NoKey,
                execute_mandate(NoKey, mandate_id, amt, merchant_id, success))
        /\ UNCHANGED last_req

NextMandate == CreateMandates \/ Execute

SpecMandate == Init /\ [][NextMandate]_vars

\* ------------------ requests that carry an Idempotency-Key, one at a time
KeyedCreateIntent ==
    \E key \in Keys, intent_id \in IntentIds :
        /\ idempotency_middleware(key,
                create_payment_intent(key, "p1", "m1", 2, "vouchers",
                                      intent_id))
        /\ UNCHANGED last_req

KeyedConfirm ==
    \E key \in Keys, intent_id \in IntentIds,
       status \in {"completed", "failed"} :
        /\ idempotency_middleware(key,
                confirm_payment(key, intent_id, status, "rrn1"))
        /\ UNCHANGED last_req

KeyedCreateMandates ==
    \E key \in Keys, current_user \in Users,
       member_user_ids \in {<<"u1">>, <<"ux">>} :
        /\ idempotency_middleware(key,
                create_mandates(key, current_user, "p1", member_user_ids, 2,
                                0, MaxTime))
        /\ UNCHANGED last_req

KeyedExecute ==
    \E key \in Keys, mandate_id \in 1..MaxMandates,
       amt \in PositiveLegAmounts, success \in BOOLEAN :
        /\ idempotency_middleware(key,
                execute_mandate(key, mandate_id, amt, "m1", success))
        /\ UNCHANGED last_req

NextIdem ==
    KeyedCreateIntent \/ KeyedConfirm \/ KeyedCreateMandates \/ KeyedExecute

SpecIdem == Init /\ [][NextIdem]_vars

\* ------------------- execute behind the middleware, one session per request
\* Request r passes idempotency_middleware (main.py 43-51): a cached key is
\* answered at once, any other request is handed to execute_mandate.
ExecuteArrive(r, key, mandate_id, amt, merchant_id, success) ==
    /\ sess[r].pc = "idle"
    /\ UNCHANGED <<tables, now, resp, idem, hist, last_req>>
    /\ IF key # NoKey /\ Cached(key)
       THEN sess' = [sess EXCEPT ![r] =
                [pc |-> "done", key |-> key, committed |-> FALSE,
                 resp |-> get_response(key)]]
       ELSE sess' = [sess EXCEPT ![r] =
                [pc |-> "handler", key |-> key, mandate_id |-> mandate_id,
                 amt |-> amt, merchant_id |-> merchant_id, success |-> success]]

ExecuteRefused(s, code, detail) ==
    [pc |-> "done", key |-> s.key, committed |-> FALSE,
     resp |-> Error("execute", code, detail)]

\* execute_mandate up to its commit (lines 78-115): the checks, the query,
\* the execution row added to the session and the mandate object updated.
ExecuteBegin(r) ==
    LET s == sess[r] IN
    /\ s.pc = "handler"
    /\ UNCHANGED <<tables, now, resp, idem, hist, last_req>>
    /\ IF s.mandate_id = 0 \/ s.amt.val = 0
       THEN sess' = [sess EXCEPT ![r] =
                ExecuteRefused(s, 400, "Mandate ID and amount required")]
       ELSE IF FindActiveMandate(s.mandate_id) = {}
       THEN sess' = [sess EXCEPT ![r] =
                ExecuteRefused(s, 404, "Mandate not found or inactive")]
       ELSE IF ExceedsCap(s.amt, mandates[s.mandate_id])
       THEN sess' = [sess EXCEPT ![r] =
                ExecuteRefused(s, 400, "Amount exceeds mandate cap")]
       ELSE LET m == mandates[s.mandate_id] IN
            sess' = [sess EXCEPT ![r] =
                [pc |-> "execute", key |-> s.key, loaded |-> m,
                 obj |-> IF s.success THEN DebitCap(m, s.amt.val) ELSE m,
                 new |-> [mandate_id |-> s.mandate_id,
                          amount |-> s.amt.val,
                          merchant_id |-> s.merchant_id,
                          status |-> IF s.success THEN "success" ELSE "failed"]]]

\* The UPDATE a flush emits for a Mandate object: the attributes whose value
\* differs from the loaded one are set, WHERE id = the row's id.
FlushMandate(row, loaded, obj) ==
    [row EXCEPT !.cap_amount = IF obj.cap_amount # loaded.cap_amount
                               THEN obj.cap_amount ELSE @,
                !.state = IF obj.state # loaded.state THEN obj.state ELSE @]

\* db.commit() (line 117) and response_data (119-127), whose remaining_cap
\* reads the mandate again after the commit has expired the object.
ExecuteCommit(r) ==
    LET s == sess[r]
        row == FlushMandate(mandates[s.loaded.id], s.loaded, s.obj)
        execution == [id |-> Len(executions) + 1,
                      mandate_id |-> s.new.mandate_id,
                      amount |-> s.new.amount,
                      merchant_id |-> s.new.merchant_id,
                      status |-> s.new.status]
    IN
    /\ s.pc = "execute"
    /\ Len(executions) < MaxExecutions
    /\ UNCHANGED <<payVars, voucherVars, created_cap, now, resp, idem, hist, last_req>>
    /\ executions' = Append(executions, execution)
    /\ mandates' = [mandates EXCEPT ![s.loaded.id] = row]
    /\ sess' = [sess EXCEPT ![r] =
            [pc |-> "store", key |-> s.key, committed |-> TRUE,
             response_data |-> [result |-> [mandate_id |-> execution.mandate_id,
                                            amount |-> execution.amount,
                                            status |-> execution.status,
                                            remaining_cap |-> row.cap_amount,
                                            execution_id |-> execution.id]]]]

\* store_idempotent_response and the return (lines 129-133)
ExecuteStore(r) ==
    LET s == sess[r] IN
    /\ s.pc = "store"
    /\ UNCHANGED <<tables, now, resp, hist, last_req>>
    /\ idem' = IF s.key = NoKey THEN idem
               ELSE store_response(idem, s.key, s.response_data)
    /\ sess' = [sess EXCEPT ![r] =
            [pc |-> "done", key |-> s.key, committed |-> TRUE,
             resp |-> Ok("execute", s.response_data)]]

\* The process serving request r dies: its session is gone, what it has
\* committed stays.
ExecuteCrash(r) ==
    LET s == sess[r] IN
    /\ s.pc \in {"handler", "execute", "store"}
    /\ UNCHANGED <<tables, now, resp, idem, hist, last_req>>
    /\ sess' = [sess EXCEPT ![r] =
            [pc |-> "crashed", key |-> s.key, committed |-> s.pc = "store"]]

\* mandates of the plan's creator with a positive cap
CreatePositive ==
    \E member_user_ids \in MemberLists, cap_amount \in {a \in Amounts : a > 0} :
        /\ idempotency_middleware(NoKey,
                create_mandates(NoKey, "u1", "p1", member_user_ids, cap_amount,
                                0, MaxTime))
        /\ UNCHANGED last_req

ExecuteRequest ==
    \E r \in Reqs, key \in Keys \cup {NoKey}, mandate_id \in 1..MaxMandates,
       amt \in PositiveLegAmounts, merchant_id \in RedeemMerchants,
       success \in BOOLEAN :
        ExecuteArrive(r, key, mandate_id, amt, merchant_id, success)

ExecuteStep == \E r \in Reqs : ExecuteBegin(r) \/ ExecuteCommit(r) \/ ExecuteStore(r)

Crash == \E r \in Reqs : ExecuteCrash(r)

NextExecuteRace == CreatePositive \/ ExecuteRequest \/ ExecuteStep \/ Crash

SpecExecuteRace == Init /\ [][NextExecuteRace]_vars

\* ------------------------------ execute calls with their payload recorded
\* Mandates of the plan's creator for one member, of any cap, and execute
\* calls whose payload is kept in last_req.
CreateOne ==
    \E cap_amount \in Amounts :
        /\ idempotency_middleware(NoKey,
                create_mandates(NoKey, "u1", "p1", <<"u1">>, cap_amount, 0,
                                MaxTime))
        /\ last_req' = NoReq

ExecuteRecorded ==
    \E mandate_id \in 0..MaxMandates, amt \in LegAmounts,
       merchant_id \in RedeemMerchants, success \in BOOLEAN :
        /\ idempotency_middleware(NoKey,
                execute_mandate(NoKey, mandate_id, amt, merchant_id, success))
        /\ last_req' = [op |-> "execute", mandate_id |-> mandate_id,
                        amt |-> amt, merchant_id |-> merchant_id,
                        success |-> success]

NextExecuteCalls == CreateOne \/ ExecuteRecorded

SpecExecuteCalls == Init /\ [][NextExecuteCalls]_vars

\* ------------------------- mint and create calls with their payload recorded
\* member ids: two known users and an unknown one, possibly repeated
RecordedMemberIds == {"u1", "u2", "ux"}
RecordedMemberLists == UNION {[1..n -> RecordedMemberIds] : n \in 0..MaxMembers}

\* calls of the plan's creator
MintRecorded ==
    \E member_user_ids \in RecordedMemberLists, amount \in Amounts :
        /\ idempotency_middleware(NoKey,
                mint_vouchers(NoKey, "u1", "p1", member_user_ids, amount,
                              <<"m1">>, MaxTime))
        /\ last_req' = [op |-> "mint", member_user_ids |-> member_user_ids,
                        amount |-> amount]

CreateRecorded ==
    \E member_user_ids \in RecordedMemberLists, cap_amount \in Amounts :
        /\ idempotency_middleware(NoKey,
                create_mandates(NoKey, "u1", "p1", member_user_ids, cap_amount,
                                0, MaxTime))
        /\ last_req' = [op |-> "create", member_user_ids |-> member_user_ids,
                        amount |-> cap_amount]

NextMembers == MintRecorded \/ CreateRecorded

SpecMembers == Init /\ [][NextMembers]_vars

\* ---------------- mint and create calls of every caller, with or without key
RecordedKeys == {NoKey, "k1"}
OwnerMemberLists == {<<>>, <<"u1">>}

OwnerMint ==
    \E key \in RecordedKeys, current_user \in Users, plan_id \in Plans \cup {"px"},
       member_user_ids \in OwnerMemberLists :
        /\ idempotency_middleware(key,
                mint_vouchers(key, current_user, plan_id, member_user_ids,
                              MintAmount, <<"m1">>, MaxTime))
        /\ last_req' = [op |-> "mint", key |-> key, current_user |-> current_user,
                        plan_id |-> plan_id]

OwnerCreate ==
    \E key \in RecordedKeys, current_user \in Users, plan_id \in Plans \cup {"px"},
       member_user_ids \in OwnerMemberLists :
        /\ idempotency_middleware(key,
                create_mandates(key, current_user, plan_id, member_user_ids,
                                MintAmount, 0, MaxTime))
        /\ last_req' = [op |-> "create", key |-> key, current_user |-> current_user,
                        plan_id |-> plan_id]

NextOwners == OwnerMint \/ OwnerCreate

SpecOwners == Init /\ [][NextOwners]_vars

\* --------------------------- payment calls with their payload recorded
\* amounts around the guardrail threshold
GuardrailAmounts == {150, 250, 500}
RecordedModes == {"vouchers", "mandates"}

CreateIntentRecorded ==
    \E plan_id \in Plans \cup {"px"}, merchant_id \in Merchants \cup {"mx"},
       amount \in GuardrailAmounts, mode \in RecordedModes,
       intent_id \in IntentIds :
        /\ idempotency_middleware(NoKey,
                create_payment_intent(NoKey, plan_id, merchant_id, amount, mode,
                                      intent_id))
        /\ last_req' = [op |-> "createIntent", plan_id |-> plan_id,
                        merchant_id |-> merchant_id, amount |-> amount,
                        mode |-> mode]

ConfirmRecorded ==
    \E intent_id \in IntentIds, status \in {"completed", "failed"} :
        /\ idempotency_middleware(NoKey,
                confirm_payment(NoKey, intent_id, status, "rrn1"))
        /\ last_req' = [op |-> "confirm", intent_id |-> intent_id,
                        status |-> status]

NextIntents == CreateIntentRecorded \/ ConfirmRecorded

SpecIntents == Init /\ [][NextIntents]_vars

\* ------------------------------------------------------- voucher claims
RedemptionsOf(v) == SelectSeq(redemptions, LAMBDA x : x.voucher_id = v)

\* C6: the amounts of all VoucherRedemption rows of a voucher sum to at most
\* the amount the voucher was minted with.
C6_RedeemedAtMostMinted ==
    \A v \in 1..Len(vouchers) : SumAmounts(RedemptionsOf(v)) <= minted[v]

\* C7: every voucher has a remaining balance >= 0 and is in state redeemed
\* exactly when its remaining balance is 0.
C7_RedeemedIffZero ==
    \A v \in 1..Len(vouchers) :
        /\ vouchers[v].amount >= 0
        /\ vouchers[v].state = "redeemed" <=> vouchers[v].amount = 0

\* ---------------------------------------------------- redeem leg claims
\* a step that served a redeem batch (its payload is last_req')
RedeemStep == resp'.op = "redeem" /\ resp'.code = 200 /\ now' = now

\* the entries of a result list (redeemed or failed) that name voucher v
EntriesFor(list, v) == SelectSeq(list, LAMBDA x : x.voucher_id = v)

\* the positions of the request's legs that name voucher v
LegsFor(voucher_ids, v) == {i \in 1..Len(voucher_ids) : voucher_ids[i] = v}

\* C16: a leg on a voucher whose stored state is active fails with
\* "Voucher expired" whenever now >= expires_at, the instant now = expires_at
\* included; the voucher row is unchanged and no redemption is appended.
C16_ExpiredFromExpiryOn ==
    [][ RedeemStep =>
          \A i \in 1..Len(last_req'.voucher_ids) :
            LET v == last_req'.voucher_ids[i] IN
            (/\ v \in 1..Len(vouchers)
             /\ vouchers[v].state = "active"
             /\ now >= vouchers[v].expires_at)
            => /\ EntriesFor(resp'.body.result.failed, v) # <<>>
               /\ \A k \in 1..Len(resp'.body.result.failed) :
                    resp'.body.result.failed[k].voucher_id = v =>
                        resp'.body.result.failed[k].reason = "Voucher expired"
               /\ EntriesFor(resp'.body.result.redeemed, v) = <<>>
               /\ vouchers'[v] = vouchers[v]
               /\ EntriesFor(redemptions', v) = EntriesFor(redemptions, v)
      ]_vars

RECURSIVE KeepSucceeding(_, _, _, _, _, _)
\* the legs of a batch that are reported redeemed, in request order
KeepSucceeding(st, db, voucher_ids, amounts, merchant_id, time) ==
    IF voucher_ids = <<>> THEN <<>>
    ELSE LET nxt == RedeemLeg(st, db, Head(voucher_ids), Head(amounts),
                              merchant_id, time)
             leg == [voucher_id |-> Head(voucher_ids), amount |-> Head(amounts)]
         IN  (IF Len(nxt.redeemed) > Len(st.redeemed) THEN <<leg>> ELSE <<>>)
             \o KeepSucceeding(nxt, db, Tail(voucher_ids), Tail(amounts),
                               merchant_id, time)

\* C17: in a redeem batch every leg lands in exactly one of redeemed /
\* failed (per voucher, the entries of both lists number its legs), the two
\* totals are the lengths of the lists and add up to the number of legs, and
\* the failing legs neither abort nor alter the others: the redeemed list
\* and the voucher rows are those of the batch without its failing legs.
C17_LegsIndependent ==
    [][ RedeemStep =>
          LET r == resp'.body.result
              ids == last_req'.voucher_ids
              kept == KeepSucceeding(RedeemSession(vouchers), vouchers, ids,
                                     last_req'.amounts, last_req'.merchant_id, now)
              alone == RedeemLoop(RedeemSession(vouchers), vouchers,
                                  [k \in 1..Len(kept) |-> kept[k].voucher_id],
                                  [k \in 1..Len(kept) |-> kept[k].amount],
                                  last_req'.merchant_id, now)
          IN  /\ r.total_redeemed = Len(r.redeemed)
              /\ r.total_failed = Len(r.failed)
              /\ r.total_redeemed + r.total_failed = Len(ids)
              /\ \A v \in VoucherIds :
                    Len(EntriesFor(r.redeemed, v)) + Len(EntriesFor(r.failed, v))
                        = Cardinality(LegsFor(ids, v))
              /\ alone.failed = <<>>
              /\ alone.redeemed = r.redeemed
              /\ \A v \in 1..Len(vouchers) : vouchers'[v] = alone.mem[v]
      ]_vars

\* a batch of two legs of which the first failed and the second was redeemed
C17_Witness ==
    /\ resp.op = "redeem"
    /\ resp.code = 200
    /\ Len(last_req.voucher_ids) = 2
    /\ resp.body.result.total_failed = 1
    /\ resp.body.result.total_redeemed = 1
    /\ resp.body.result.failed[1].voucher_id = last_req.voucher_ids[1]
    /\ resp.body.result.redeemed[1].voucher_id = last_req.voucher_ids[2]
    /\ redemptions # <<>>

\* C18: a leg (v, a) on a stored-active voucher with now < expires_at and
\* a <= balance, v named by no other leg of the batch, is reported redeemed
\* with amount a and the new balance as remaining, lowers the balance by a,
\* appends one redemption (v, a, merchant), and leaves v redeemed exactly when
\* the new balance is 0, else active.
C18_LegEffect ==
    [][ RedeemStep =>
          \A i \in 1..Len(last_req'.voucher_ids) :
            LET v == last_req'.voucher_ids[i]
                a == last_req'.amounts[i].val
            IN
            (/\ LegsFor(last_req'.voucher_ids, v) = {i}
             /\ v \in 1..Len(vouchers)
             /\ vouchers[v].state = "active"
             /\ now < vouchers[v].expires_at
             /\ a <= vouchers[v].amount)
            => /\ vouchers'[v].amount = vouchers[v].amount - a
               /\ vouchers'[v].state =
                      IF vouchers[v].amount - a = 0 THEN "redeemed" ELSE "active"
               /\ EntriesFor(redemptions', v) =
                      Append(EntriesFor(redemptions, v),
                             [voucher_id |-> v, amount |-> a,
                              merchant_id |-> last_req'.merchant_id])
               /\ EntriesFor(resp'.body.result.redeemed, v) =
                      <<[voucher_id |-> v, amount |-> a,
                         remaining |-> vouchers[v].amount - a]>>
      ]_vars

\* C19: a voucher whose legs in a batch were all reported failed keeps its
\* row, and no redemption naming it is appended.
C19_FailedLegNoEffect ==
    [][ RedeemStep =>
          \A v \in 1..Len(vouchers) :
            (/\ EntriesFor(resp'.body.result.failed, v) # <<>>
             /\ EntriesFor(resp'.body.result.redeemed, v) = <<>>)
            => /\ vouchers'[v] = vouchers[v]
               /\ EntriesFor(redemptions', v) = EntriesFor(redemptions, v)
      ]_vars

\* ------------------------------------------------------- mandate claims
\* C9: from one state to the next no mandate's remaining cap increases, and
\* no remaining cap is negative.
C9_CapNonIncreasing ==
    [][ /\ \A m \in 1..Len(mandates) :
            mandates'[m].cap_amount <= mandates[m].cap_amount
        /\ \A m \in 1..Len(mandates') : mandates'[m].cap_amount >= 0
      ]_vars

\* C10: a mandate is in state expired exactly when its remaining cap is 0.
C10_ExpiredIffZero ==
    \A m \in 1..Len(mandates) :
        mandates[m].state = "expired" <=> mandates[m].cap_amount = 0

\* -------------------------------------------------- redeem race claims
\* the amounts of the legs of v that request r reported as redeemed
ReportedRedeemed(r, v) ==
    IF Succeeded(r, "redeem")
    THEN SumAmounts(SelectSeq(sess[r].resp.body.result.redeemed,
                              LAMBDA x : x.voucher_id = v))
    ELSE 0

RECURSIVE SumOver(_, _)
SumOver(S, v) ==
    IF S = {} THEN 0
    ELSE LET r == CHOOSE r \in S : TRUE
         IN  ReportedRedeemed(r, v) + SumOver(S \ {r}, v)

\* C8: under every interleaving of the redeem calls, a voucher's balance is
\* its initial balance minus the amounts of all legs reported as redeemed,
\* and those amounts sum to at most the initial balance.
C8_NoDoubleSpend ==
    \A v \in 1..Len(vouchers) :
        /\ vouchers[v].amount = minted[v] - SumOver(Reqs, v)
        /\ SumOver(Reqs, v) <= minted[v]

KeyOf(r) == IF sess[r].pc = "idle" THEN NoKey ELSE sess[r].key

\* request r has committed its execution row and mandate update
Committed(r) == sess[r].pc \in {"store", "done", "crashed"} /\ sess[r].committed

\* C13: of two requests with the same idempotency key that both returned
\* 200, exactly one has executed its side effects and both carry the same
\* response body.
C13_OneOperationPerKey ==
    \A r1, r2 \in Reqs :
        (/\ r1 # r2
         /\ KeyOf(r1) # NoKey /\ KeyOf(r1) = KeyOf(r2)
         /\ sess[r1].pc = "done" /\ sess[r1].resp.code = 200
         /\ sess[r2].pc = "done" /\ sess[r2].resp.code = 200)
        => /\ ~(Committed(r1) /\ Committed(r2))
           /\ sess[r1].resp.body = sess[r2].resp.body

\* C14: a request that carried key k and has ended (returned or crashed) with
\* its effects committed has left a record for k, and no two requests with
\* one key have both committed effects.
C14_AtMostOnceAcrossFailures ==
    /\ \A r \in Reqs :
        (KeyOf(r) # NoKey /\ sess[r].pc \in {"done", "crashed"} /\ Committed(r))
            => Cached(KeyOf(r))
    /\ \A r1, r2 \in Reqs :
        (r1 # r2 /\ KeyOf(r1) # NoKey /\ KeyOf(r1) = KeyOf(r2))
            => ~(Committed(r1) /\ Committed(r2))

\* C15: the idempotency table never holds two rows for one key, and the row
\* of a key, once stored, is never changed by a later store: get_response
\* keeps returning the payload of the first store.
C15_WriteOnce ==
    [][ \A k \in Keys :
            /\ Len(RowsOf(idem', k)) <= 1
            /\ Cached(k) => RowsOf(idem', k) = RowsOf(idem, k)
      ]_vars

\* two requests with one key have both executed and both called the store
\* with different payloads; the table holds one row, the payload of one of them
C15_Witness ==
    \E r1, r2 \in Reqs :
        /\ r1 # r2
        /\ KeyOf(r1) # NoKey /\ KeyOf(r1) = KeyOf(r2)
        /\ sess[r1].pc = "done" /\ Committed(r1)
        /\ sess[r2].pc = "done" /\ Committed(r2)
        /\ sess[r1].resp.body # sess[r2].resp.body
        /\ Len(RowsOf(idem, KeyOf(r1))) = 1
        /\ get_response(KeyOf(r1)).body = sess[r1].resp.body

\* ------------------------------------------------- execute race claims
SuccessOf(m) ==
    SelectSeq(executions, LAMBDA x : x.mandate_id = m /\ x.status = "success")

\* C11: under every interleaving of the execute calls, a mandate's remaining
\* cap is the cap it was created with minus the amounts of its executions
\* recorded as success, and those amounts sum to at most the created cap.
C11_NoStaleCap ==
    \A m \in 1..Len(mandates) :
        /\ mandates[m].cap_amount = created_cap[m] - SumAmounts(SuccessOf(m))
        /\ SumAmounts(SuccessOf(m)) <= created_cap[m]

\* C20: the redemption rows and the voucher updates of a batch's successful
\* legs are written in one step, the commit, all of them together; a request
\* that crashes before it writes none of them, and nothing else ever appends
\* a redemption or changes a voucher.
C20_BatchAtomic ==
    [][ /\ \A r \in Reqs :
            sess[r].pc = "redeem" =>
                LET s == sess[r] IN
                \/ sess'[r] = s
                \/ /\ sess'[r].pc = "done"
                   /\ redemptions' = redemptions \o s.st.new
                   /\ \A v \in 1..Len(s.loaded) :
                        /\ s.st.mem[v].amount # s.loaded[v].amount
                              => vouchers'[v].amount = s.st.mem[v].amount
                        /\ s.st.mem[v].state # s.loaded[v].state
                              => vouchers'[v].state = s.st.mem[v].state
                \/ /\ sess'[r].pc = "crashed"
                   /\ UNCHANGED <<vouchers, redemptions>>
        /\ (redemptions' # redemptions
               \/ \E v \in 1..Len(vouchers) : vouchers'[v] # vouchers[v])
            => \E r \in Reqs : sess[r].pc = "redeem" /\ sess'[r].pc = "done"
      ]_vars

\* a request has died with two redeemed legs in its session and left no row,
\* after an earlier batch had committed its rows
C20_Witness ==
    \E r \in Reqs :
        /\ sess[r].pc = "crashed"
        /\ sess[r].lost = 2
        /\ Len(redemptions) = 1
        /\ vouchers[redemptions[1].voucher_id].amount = MintAmount - redemptions[1].amount

\* ------------------------------------------------ execute call claims
\* a step that served an execute call (its payload is last_req')
ExecuteCall == resp'.op = "execute" /\ last_req' # NoReq

\* the execution rows a step has appended
NewExecutions == SubSeq(executions', Len(executions) + 1, Len(executions'))

\* C21: every execute call that names an existing mandate appends exactly
\* one MandateExecution row for that mandate, with status success or failed,
\* whether the debit succeeds, fails, or the attempt is rejected.
C21_RecordPerAttempt ==
    [][ (ExecuteCall /\ last_req'.mandate_id \in 1..Len(mandates)) =>
            /\ Len(NewExecutions) = 1
            /\ NewExecutions[1].mandate_id = last_req'.mandate_id
            /\ NewExecutions[1].status \in {"success", "failed"}
      ]_vars

\* C22 as stated: an execute whose amount is greater than the remaining cap
\* of the mandate it names fails with "Amount exceeds mandate cap", leaves the
\* mandate's row unchanged, and appends no execution row with status success.
C22_CapExceeded ==
    [][ (/\ ExecuteCall
         /\ last_req'.mandate_id \in 1..Len(mandates)
         /\ last_req'.amt.val > mandates[last_req'.mandate_id].cap_amount)
        => /\ resp'.code = 400
           /\ resp'.body.detail = "Amount exceeds mandate cap"
           /\ mandates' = mandates
           /\ \A k \in 1..Len(NewExecutions) : NewExecutions[k].status # "success"
      ]_vars

\* C22 amended: the same for a mandate in state active and an amount other
\* than 0 (an amount of 0 is refused as missing, and a mandate that is not
\* active is refused as not found, both before the cap is looked at).
C22_CapExceededOnActive ==
    [][ (/\ ExecuteCall
         /\ last_req'.mandate_id \in 1..Len(mandates)
         /\ mandates[last_req'.mandate_id].state = "active"
         /\ last_req'.amt.val # 0
         /\ last_req'.amt.val > mandates[last_req'.mandate_id].cap_amount)
        => /\ resp'.code = 400
           /\ resp'.body.detail = "Amount exceeds mandate cap"
           /\ mandates' = mandates
           /\ \A k \in 1..Len(NewExecutions) : NewExecutions[k].status # "success"
      ]_vars

\* an execute of more than the remaining cap of an active mandate, which an
\* earlier execution had lowered, was refused and the cap is still what it was
C22_Witness ==
    /\ resp.op = "execute"
    /\ resp.code = 400
    /\ resp.body.detail = "Amount exceeds mandate cap"
    /\ last_req # NoReq
    /\ last_req.mandate_id \in 1..Len(mandates)
    /\ mandates[last_req.mandate_id].state = "active"
    /\ mandates[last_req.mandate_id].cap_amount = 1
    /\ last_req.amt.val = 2
    /\ Len(executions) = 1

\* C23: an execute that passes the checks (mandate active, amount present
\* and at most the remaining cap) returns 200; on success the cap decreases
\* by exactly the amount and the mandate is expired exactly when the new cap
\* is 0, on failure the mandate's row is unchanged; the returned outcome and
\* remaining cap are the recorded outcome and the stored cap, and no other
\* mandate changes.
C23_OutcomeDecidesEffect ==
    [][ (/\ ExecuteCall
         /\ last_req'.mandate_id \in 1..Len(mandates)
         /\ mandates[last_req'.mandate_id].state = "active"
         /\ last_req'.amt.val # 0
         /\ last_req'.amt.val <= mandates[last_req'.mandate_id].cap_amount)
        => LET m == last_req'.mandate_id
               new_cap == mandates[m].cap_amount - last_req'.amt.val
           IN  /\ resp'.code = 200
               /\ IF last_req'.success
                  THEN /\ mandates'[m].cap_amount = new_cap
                       /\ mandates'[m].state = "expired" <=> new_cap = 0
                  ELSE mandates'[m] = mandates[m]
               /\ resp'.body.result.status =
                      (IF last_req'.success THEN "success" ELSE "failed")
               /\ Len(NewExecutions) = 1
               /\ NewExecutions[1].status = resp'.body.result.status
               /\ resp'.body.result.remaining_cap = mandates'[m].cap_amount
               /\ \A o \in 1..Len(mandates) : o # m => mandates'[o] = mandates[o]
      ]_vars

C25_RedeemedIsFinal ==
    [][ /\ \A v \in 1..Len(vouchers) :
            vouchers[v].state = "redeemed" =>
                /\ vouchers'[v] = vouchers[v]
                /\ EntriesFor(redemptions', v) = EntriesFor(redemptions, v)
                /\ RedeemStep => EntriesFor(resp'.body.result.redeemed, v) = <<>>
        /\ RedeemStep =>
              LET done == resp'.body.result.redeemed IN
              \A i, j \in 1..Len(done) :
                (i < j /\ done[i].voucher_id = done[j].voucher_id)
                    => done[i].remaining # 0
      ]_vars

\* ------------------------------------------------ mint and create claims
\* the distinct known users among the member ids of a request
DistinctKnown(member_user_ids) ==
    {member_user_ids[i] : i \in 1..Len(member_user_ids)} \cap Users

\* the rows a step has appended
NewVouchers == SubSeq(vouchers', Len(vouchers) + 1, Len(vouchers'))
NewMandates == SubSeq(mandates', Len(mandates) + 1, Len(mandates'))

\* C26: a mint by the plan's creator returns 200 and appends exactly one
\* voucher per distinct known member id of the request (none for an unknown
\* id, one for an id that occurs several times), each active with the
\* requested amount as its balance; likewise create for mandates and caps.
C26_OnePerDistinctMember ==
    [][ /\ (last_req'.op = "mint" /\ resp'.op = "mint") =>
              LET want == DistinctKnown(last_req'.member_user_ids) IN
              /\ resp'.code = 200
              /\ Len(NewVouchers) = Cardinality(want)
              /\ \A u \in want : \E k \in 1..Len(NewVouchers) :
                    NewVouchers[k].member_user_id = u
              /\ \A k \in 1..Len(NewVouchers) :
                    /\ NewVouchers[k].member_user_id \in want
                    /\ NewVouchers[k].state = "active"
                    /\ NewVouchers[k].amount = last_req'.amount
        /\ (last_req'.op = "create" /\ resp'.op = "create") =>
              LET want == DistinctKnown(last_req'.member_user_ids) IN
              /\ resp'.code = 200
              /\ Len(NewMandates) = Cardinality(want)
              /\ \A u \in want : \E k \in 1..Len(NewMandates) :
                    NewMandates[k].member_user_id = u
              /\ \A k \in 1..Len(NewMandates) :
                    /\ NewMandates[k].member_user_id \in want
                    /\ NewMandates[k].state = "active"
                    /\ NewMandates[k].cap_amount = last_req'.amount
      ]_vars

\* a step that served a mint or create call whose caller is not the plan's
\* creator, or whose plan is unknown
ForeignCall ==
    /\ last_req' # NoReq
    /\ last_req'.op \in {"mint", "create"}
    /\ ~Accepted(last_req'.current_user, last_req'.plan_id)

\* the status the handler gives such a call
RefusalCode(plan_id) == IF plan_id \in Plans THEN 403 ELSE 404

\* C27 as stated: a mint or create call for an unknown plan fails with 404,
\* one by a caller who is not the plan's creator fails with 403, and in both
\* cases no table changes and no idempotency record is stored.
C27_OnlyCreator ==
    [][ ForeignCall =>
            /\ resp'.code = RefusalCode(last_req'.plan_id)
            /\ tables' = tables
            /\ idem' = idem
      ]_vars

\* C27 amended: the same for a call whose idempotency key, if it carries one,
\* has no stored response; a call whose key has one is answered with that
\* response, and it too changes no table and stores no record.
C27_OnlyCreatorReachesHandler ==
    [][ ForeignCall =>
            /\ resp'.code = IF last_req'.key # NoKey /\ Cached(last_req'.key)
                            THEN 200 ELSE RefusalCode(last_req'.plan_id)
            /\ (last_req'.key # NoKey /\ Cached(last_req'.key))
                    => resp' = get_response(last_req'.key)
            /\ tables' = tables
            /\ idem' = idem
      ]_vars

\* the creator has minted a voucher and created a mandate; a later call by
\* another user, carrying a key, was refused with 403 and left no record
C27_Witness ==
    /\ last_req # NoReq
    /\ last_req.op \in {"mint", "create"}
    /\ last_req.current_user # created_by(last_req.plan_id)
    /\ last_req.plan_id \in Plans
    /\ last_req.key # NoKey
    /\ resp.code = 403
    /\ idem = <<>>
    /\ Len(vouchers) = 1
    /\ Len(mandates) = 1

\* ------------------------------------------------ createIntent claims
\* a step that served a createIntent call (its payload is last_req')
IntentCall == last_req' # NoReq /\ last_req'.op = "createIntent"

\* a step that served a confirm call
ConfirmCall == last_req' # NoReq /\ last_req'.op = "confirm"

KnownPlanAndMerchant ==
    last_req'.plan_id \in Plans /\ last_req'.merchant_id \in Merchants

\* the rows a step has appended
NewTransactions ==
    SubSeq(transactions', Len(transactions) + 1, Len(transactions'))

\* C28: createIntent with an unknown plan or an unknown merchant fails with
\* 404 and leaves the transactions as they are; any other createIntent
\* appends exactly one transaction, pending, with the requested plan,
\* merchant, amount and mode, and changes no other transaction; no
\* createIntent changes the ledger.
C28_IntentCreatesPending ==
    [][ IntentCall =>
            /\ ledger' = ledger
            /\ IF KnownPlanAndMerchant
               THEN /\ Len(NewTransactions) = 1
                    /\ SubSeq(transactions', 1, Len(transactions)) = transactions
                    /\ NewTransactions[1].status = "pending"
                    /\ NewTransactions[1].plan_id = last_req'.plan_id
                    /\ NewTransactions[1].merchant_id = last_req'.merchant_id
                    /\ NewTransactions[1].amount = last_req'.amount
                    /\ NewTransactions[1].mode = last_req'.mode
               ELSE /\ resp'.code = 404
                    /\ transactions' = transactions
      ]_vars

\* the intent ids of the stored transactions
IntentIdsOf(table) == {table[i].intent_id : i \in 1..Len(table)}

\* C29: every createIntent for a known plan and merchant succeeds with an
\* intent id that no existing transaction has, and no two transactions ever
\* share an intent id.
C29_IntentIdUnique ==
    [][ /\ (IntentCall /\ KnownPlanAndMerchant) =>
              /\ resp'.code = 200
              /\ resp'.body.intent_id \notin IntentIdsOf(transactions)
        /\ \A i, j \in 1..Len(transactions') :
              i # j => transactions'[i].intent_id # transactions'[j].intent_id
      ]_vars

\* C30: a createIntent that returns carries guardrail_required = TRUE
\* exactly when the requested amount is greater than 250, and the flag binds
\* nothing: the transaction it returns is stored pending, and a confirm of a
\* pending intent succeeds and sets the requested status whatever the amount.
C30_GuardrailAdvisory ==
    [][ /\ (IntentCall /\ resp'.code = 200) =>
              /\ resp'.body.guardrail_required = (last_req'.amount > 250)
              /\ resp'.body.transaction.status = "pending"
              /\ NewTransactions = <<resp'.body.transaction>>
        /\ ConfirmCall =>
              \A i \in TxnIds :
                (/\ transactions[i].intent_id = last_req'.intent_id
                 /\ transactions[i].status = "pending")
                => /\ resp'.code = 200
                   /\ resp'.body.transaction_id = i
                   /\ transactions'[i].status = last_req'.status
      ]_vars

\* an intent of 500 was created with the flag raised and then confirmed as
\* completed; an intent of 250 was created without the flag
C30_Witness ==
    /\ resp.op = "confirm"
    /\ resp.code = 200
    /\ transactions[resp.body.transaction_id].amount = 500
    /\ transactions[resp.body.transaction_id].status = "completed"
    /\ guardrail_required(500)
    /\ \E i \in TxnIds : transactions[i].amount = 250 /\ ~guardrail_required(250)

\* ------------------------------------------------------ ledger claims
\* C31: every ledger entry has an amount greater than 0, and a debit and a
\* credit entry of one transaction are on different accounts.
C31_PostingsPositive ==
    /\ \A k \in 1..Len(ledger) : ledger[k].amount > 0
    /\ \A d, c \in 1..Len(ledger) :
          (/\ ledger[d].txn_id = ledger[c].txn_id
           /\ ledger[d].leg = "debit"
           /\ ledger[c].leg = "credit")
          => ledger[d].account # ledger[c].account

\* -------------------------------------- the two funding engines together
\* Vouchers and mandates of plan p1, redeemed and executed with well-formed
\* amounts at merchant m1 (on every voucher's list) or at m2, another seeded
\* merchant (on none); executions are of amount 1 at m1.  The payload of the
\* call is kept in last_req.
FundingMerchants == {"m1", "m2"}

FundingCreate ==
    /\ idempotency_middleware(NoKey,
            create_mandates(NoKey, "u1", "p1", <<"u1">>, MintAmount, 0, MaxTime))
    /\ UNCHANGED last_req

FundingRedeem ==
    \E n \in 1..MaxLegs : \E voucher_ids \in [1..n -> VoucherIds],
       amounts \in [1..n -> PositiveLegAmounts], merchant_id \in FundingMerchants :
        /\ idempotency_middleware(NoKey,
                redeem_vouchers(NoKey, voucher_ids, amounts, merchant_id))
        /\ last_req' = [op |-> "redeem", voucher_ids |-> voucher_ids,
                        amounts |-> amounts, merchant_id |-> merchant_id]

FundingExecute ==
    \E mandate_id \in 1..MaxMandates, amt \in {IntAmt(1)},
       merchant_id \in RedeemMerchants, success \in BOOLEAN :
        /\ idempotency_middleware(NoKey,
                execute_mandate(NoKey, mandate_id, amt, merchant_id, success))
        /\ last_req' = [op |-> "execute", mandate_id |-> mandate_id, amt |-> amt,
                        merchant_id |-> merchant_id, success |-> success]

NextFunding == MintUnexpired \/ FundingCreate \/ FundingRedeem \/ FundingExecute

SpecFunding == Init /\ [][NextFunding]_vars

\* ----------------------------------------------- funding engine claims
\* the ledger entries a step appends
NewLedger == SubSeq(ledger', Len(ledger) + 1, Len(ledger'))

\* a debit and a credit entry of one amount among the entries of list
PostedPair(list, amount) ==
    \E d, c \in 1..Len(list) :
        /\ list[d].leg = "debit" /\ list[d].amount = amount
        /\ list[c].leg = "credit" /\ list[c].amount = amount
        /\ list[d].txn_id = list[c].txn_id

\* C32: every successful redemption leg and every successful mandate
\* execution posts a debit/credit pair of the redeemed or executed amount to
\* the ledger.
C32_FundingPosted ==
    [][/\ (resp'.op = "redeem" /\ resp'.code = 200 /\ last_req'.op = "redeem")
           => \A k \in 1..Len(resp'.body.result.redeemed) :
                  PostedPair(NewLedger, resp'.body.result.redeemed[k].amount)
       /\ (resp'.op = "execute" /\ resp'.code = 200 /\ last_req'.op = "execute"
            /\ resp'.body.result.status = "success")
           => PostedPair(NewLedger, last_req'.amt.val)]_vars

\* C33: every VoucherRedemption record names a merchant on its voucher's
\* merchant_list.
C33_ListedMerchantsOnly ==
    \A k \in 1..Len(redemptions) :
        \E j \in 1..Len(vouchers[redemptions[k].voucher_id].merchant_list) :
            vouchers[redemptions[k].voucher_id].merchant_list[j]
                = redemptions[k].merchant_id

\* ------------------- one key space for the requests of every endpoint
\* Requests of four endpoints that draw their Idempotency-Key from the same
\* set; last_req keeps the endpoint and the key of the request.
KeysCreateIntent ==
    \E key \in Keys, intent_id \in IntentIds :
        /\ idempotency_middleware(key,
                create_payment_intent(key, "p1", "m1", 2, "vouchers",
                                      intent_id))
        /\ last_req' = [op |-> "createIntent", key |-> key]

KeysConfirm ==
    \E key \in Keys, intent_id \in IntentIds :
        /\ idempotency_middleware(key,
                confirm_payment(key, intent_id, "completed", "rrn1"))
        /\ last_req' = [op |-> "confirm", key |-> key]

KeysCreateMandates ==
    \E key \in Keys, member_user_ids \in {<<"u1">>, <<"ux">>} :
        /\ idempotency_middleware(key,
                create_mandates(key, "u1", "p1", member_user_ids, 2, 0,
                                MaxTime))
        /\ last_req' = [op |-> "create", key |-> key]

KeysExecute ==
    \E key \in Keys, mandate_id \in 1..MaxMandates, success \in BOOLEAN :
        /\ idempotency_middleware(key,
                execute_mandate(key, mandate_id, IntAmt(1), "m1", success))
        /\ last_req' = [op |-> "execute", key |-> key]

NextKeys == KeysCreateIntent \/ KeysConfirm \/ KeysCreateMandates \/ KeysExecute

SpecKeys == Init /\ [][NextKeys]_vars

\* the endpoints whose handlers the requests of SpecKeys reach
KeyedOps == {"createIntent", "confirm", "create", "execute"}

\* C34: idempotency keys are not scoped per endpoint: when a response is
\* stored under key k, a request of any endpoint that carries k is answered
\* with the stored response_data, status 200, and changes no table and no
\* idempotency row.
C34_KeysAreGlobal ==
    [][ \A k \in Keys, op \in KeyedOps :
            (Cached(k) /\ last_req'.key = k /\ last_req'.op = op) =>
                /\ resp'.code = 200
                /\ resp'.body = Head(RowsOf(idem, k)).response_data
                /\ tables' = tables
                /\ idem' = idem
      ]_vars

\* a createIntent carrying k2 was answered with the result that an execute
\* had stored under k2, while another response is stored under k1, and no
\* transaction was created
C34_Witness ==
    /\ last_req = [op |-> "createIntent", key |-> "k2"]
    /\ resp.op = "replay"
    /\ hist.first["k2"].op = "execute"
    /\ resp.body = hist.first["k2"].body
    /\ "result" \in DOMAIN resp.body
    /\ Cached("k1")
    /\ hist.first["k1"].op = "confirm"
    /\ Len(transactions) = 1

\* ------------------ redeem and confirm requests, one session per request
\* Vouchers are minted and intents created while no request is in flight;
\* then each of the two requests is a redeem (legs of amount 1 at m1) or a
\* confirm (completed or failed), runs up to its commit on the rows it has
\* read, and commits.
AllIdle == \A r \in Reqs : sess[r].pc = "idle"

CommuteMint == AllIdle /\ MintUnexpired

CommuteIntent ==
    /\ AllIdle
    /\ \E intent_id \in IntentIds :
           idempotency_middleware(NoKey,
               create_payment_intent(NoKey, "p1", "m1", 2, "vouchers", intent_id))
    /\ UNCHANGED last_req

CommuteRedeemStart ==
    \E r \in Reqs, n \in 1..MaxLegs : \E voucher_ids \in [1..n -> VoucherIds],
       amounts \in [1..n -> {IntAmt(1)}] :
        RedeemBegin(r, voucher_ids, amounts, "m1")

CommuteConfirmStart ==
    \E r \in Reqs, intent_id \in IntentIds, status \in {"completed", "failed"} :
        ConfirmBegin(r, intent_id, status, "rrn1")

NextCommute ==
    \/ CommuteMint \/ CommuteIntent
    \/ CommuteRedeemStart \/ RedeemEnd
    \/ CommuteConfirmStart \/ ConfirmEnd

SpecCommute == Init /\ [][NextCommute]_vars

\* --------------------------------------------------- commutation claims
\* the vouchers named by the legs of a redeem result or redeem session
Targets(st) ==
    {st.redeemed[k].voucher_id : k \in 1..Len(st.redeemed)}
        \cup {st.failed[k].voucher_id : k \in 1..Len(st.failed)}

\* the vouchers request r has worked on, in flight or committed
VouchersOf(r) ==
    IF sess[r].pc = "redeem" THEN Targets(sess[r].st)
    ELSE IF sess[r].pc = "done" /\ sess[r].resp.op = "redeem"
            /\ sess[r].resp.code = 200
    THEN Targets(sess[r].resp.body.result)
    ELSE {}

\* the transaction request r has worked on, in flight or committed; 0: none
TxnOf(r) ==
    IF sess[r].pc = "confirm" THEN sess[r].txn
    ELSE IF sess[r].pc = "done" /\ sess[r].resp.op = "confirm"
            /\ sess[r].resp.code = 200
    THEN sess[r].resp.body.transaction_id
    ELSE 0

\* voucher v as it was minted (no redeem runs before the two requests)
Fresh(v) == [vouchers[v] EXCEPT !.amount = minted[v], !.state = "active"]

\* the commit of redeem request r, whatever the other request o has done or
\* is doing on other vouchers: r has worked on its vouchers as minted, the
\* commit writes its result on them and leaves every other voucher as it
\* is, appends its redemption rows, and answers with its own result
RedeemCommutes(r, o) ==
    (/\ sess[r].pc = "redeem" /\ sess'[r].pc = "done"
     /\ VouchersOf(o) \cap Targets(sess[r].st) = {})
    => LET s == sess[r] IN
       /\ \A v \in 1..Len(vouchers) :
             IF v \in Targets(s.st)
             THEN /\ v <= Len(s.loaded) => s.loaded[v] = Fresh(v)
                  /\ v <= Len(s.loaded) => vouchers'[v] = s.st.mem[v]
             ELSE vouchers'[v] = vouchers[v]
       /\ Len(s.loaded) = Len(vouchers)
       /\ redemptions' = redemptions \o s.st.new
       /\ Len(s.st.new) = Len(s.st.redeemed)
       /\ sess'[r].resp = Ok("redeem", [result |-> RedeemResult(s.st)])
       /\ sess'[o] = sess[o]
       /\ payVars' = payVars

\* the same for the commit of confirm request r when o works on, or has
\* confirmed, another transaction
ConfirmCommutes(r, o) ==
    (/\ sess[r].pc = "confirm" /\ sess'[r].pc = "done"
     /\ TxnOf(o) # sess[r].txn)
    => LET s == sess[r] IN
       /\ transactions[s.txn] = s.loaded
       /\ s.loaded.status = "pending"
       /\ transactions' = [transactions EXCEPT ![s.txn] =
                              [s.loaded EXCEPT !.status = s.req.status,
                                               !.rrn_stub = s.req.rrn_stub]]
       /\ ledger' = ledger \o ConfirmEntries(s.loaded, s.req.status)
       /\ sess'[r].resp = Ok("confirm", [transaction_id |-> s.txn,
                                          status |-> s.req.status,
                                          rrn_stub |-> s.req.rrn_stub])
       /\ sess'[o] = sess[o]
       /\ voucherVars' = voucherVars

\* C35: operations on independent entities commute: a redeem call on
\* vouchers the other call does not name, and a confirm call for an intent
\* the other call does not confirm, has the result and the effects of running
\* alone on the rows as they were before both calls, in either order of the
\* commits and under every interleaving of the two calls.
C35_IndependentCommute ==
    [][ \A r, o \in Reqs :
            r # o => RedeemCommutes(r, o) /\ ConfirmCommutes(r, o) ]_vars

\* two redeem calls ran on the same snapshot, one on voucher 1 and one on
\* voucher 2, and both have committed: each voucher carries its own debit
C35_Witness ==
    /\ VouchersOf(1) = {1} /\ VouchersOf(2) = {2}
    /\ sess[1].pc = "done" /\ sess[2].pc = "done"
    /\ sess[1].resp.body.result.total_redeemed = 1
    /\ sess[2].resp.body.result.total_redeemed = 1
    /\ sess[1].resp.body.result.redeemed[1].remaining = 1
    /\ sess[2].resp.body.result.redeemed[1].remaining = 1
    /\ vouchers[1].amount = 1 /\ vouchers[2].amount = 1
    /\ Len(redemptions) = 2
    /\ redemptions[1].voucher_id # redemptions[2].voucher_id

\* ---------------------------------------------------- accounting claims
\* C36: requests served one after another: for every voucher, the amount
\* it was minted with equals its balance plus the sum of the amounts of the
\* VoucherRedemption rows that reference it.
C36_VoucherAccounting ==
    \A v \in 1..Len(vouchers) :
        minted[v] = vouchers[v].amount + SumAmounts(RedemptionsOf(v))

\* the MandateExecution rows of mandate m with one outcome
ExecutionsOf(m, status) ==
    SelectSeq(executions, LAMBDA x : x.mandate_id = m /\ x.status = status)

\* C37: requests served one after another: for every mandate, the cap it
\* was created with equals its remaining cap plus the sum of the amounts of
\* its MandateExecution rows with status success; the rows with status
\* failed are left out of the sum.
C37_MandateAccounting ==
    \A m \in 1..Len(mandates) :
        created_cap[m] = mandates[m].cap_amount
                           + SumAmounts(ExecutionsOf(m, "success"))

\* a mandate created with cap 2 has one failed and one successful execution
\* of amount 1 and a remaining cap of 1
C37_Witness ==
    /\ Len(mandates) >= 1
    /\ created_cap[1] = 2
    /\ mandates[1].cap_amount = 1
    /\ Len(ExecutionsOf(1, "success")) = 1
    /\ Len(ExecutionsOf(1, "failed")) = 1
    /\ SumAmounts(ExecutionsOf(1, "failed")) = 1

\* the transactions with status completed that satisfy Of
CompletedOf(Of(_)) ==
    SelectSeq(transactions, LAMBDA t : t.status = "completed" /\ Of(t))

\* C38: the balance of merchant_<m> is the sum of the amounts of the
\* completed transactions of merchant m, the balance of plan_<p> is minus
\* the sum of the amounts of the completed transactions of plan p; pending
\* and failed transactions contribute nothing.
C38_BalancesReflectCompleted ==
    /\ \A m \in Merchants :
          get_account_balance(MerchantAccount(m))
              = SumAmounts(CompletedOf(LAMBDA t : t.merchant_id = m))
    /\ \A p \in Plans :
          get_account_balance(PlanAccount(p))
              = 0 - SumAmounts(CompletedOf(LAMBDA t : t.plan_id = p))

\* --------------------------------------------------- confirm's frame
\* the fields of a transaction that createIntent sets for good
Immutable(t) ==
    [id |-> t.id, intent_id |-> t.intent_id, plan_id |-> t.plan_id,
     merchant_id |-> t.merchant_id, amount |-> t.amount, mode |-> t.mode]

\* request r is a confirm that reads (from idle) or commits (to done)
ConfirmReads(r) == sess[r].pc = "idle" /\ sess'[r].pc \in {"confirm", "done"}
                     /\ "req" \in DOMAIN sess'[r]
ConfirmWrites(r) == sess[r].pc = "confirm" /\ sess'[r].pc = "done"

\* C39: a confirm changes only the status and the rrn_stub of the
\* transaction its intent id names and appends ledger entries only for that
\* transaction, and changes no voucher and no mandate; no step changes the
\* id, intent id, plan, merchant, amount or mode of a transaction, and no
\* step modifies or deletes a ledger entry.
C39_ConfirmFrame ==
    [][ /\ \A i \in 1..Len(transactions) :
              /\ i <= Len(transactions')
              /\ Immutable(transactions'[i]) = Immutable(transactions[i])
        /\ Len(ledger') >= Len(ledger)
        /\ SubSeq(ledger', 1, Len(ledger)) = ledger
        /\ \A r \in Reqs :
              /\ ConfirmReads(r) => tables' = tables
              /\ ConfirmWrites(r) =>
                    /\ transactions[sess[r].txn].intent_id = sess[r].req.intent_id
                    /\ Len(transactions') = Len(transactions)
                    /\ \A i \in 1..Len(transactions) :
                          i # sess[r].txn => transactions'[i] = transactions[i]
                    /\ \A k \in Len(ledger) + 1 .. Len(ledger') :
                          ledger'[k].txn_id = sess[r].txn
                    /\ voucherVars' = voucherVars
                    /\ mandateVars' = mandateVars
      ]_vars

\* a confirm has completed transaction 1 while transaction 2 is pending and a
\* voucher exists: the two ledger entries are those of transaction 1, and
\* transaction 2 and the voucher are as created
C39_Witness ==
    /\ sess[1].pc = "done" /\ sess[1].resp.op = "confirm"
    /\ sess[1].resp.code = 200
    /\ sess[1].resp.body = [transaction_id |-> 1, status |-> "completed",
                             rrn_stub |-> "rrn1"]
    /\ Len(transactions) = 2
    /\ transactions[1].status = "completed" /\ transactions[1].rrn_stub = "rrn1"
    /\ transactions[2].status = "pending" /\ transactions[2].rrn_stub = "null"
    /\ Len(ledger) = 2
    /\ ledger[1].txn_id = 1 /\ ledger[2].txn_id = 1
    /\ Len(vouchers) = 1 /\ vouchers[1] = Fresh(1)

\* ------------------------------------------------ failed keyed requests
\* C40: only successful responses are recorded: a request that carries key
\* k and does not end in 200 stores nothing, a row stored under k holds the
\* body of the 200 response of the request that stored it, and a request
\* whose key has no row is not answered from the store but by its handler.
C40_FailuresNotRecorded ==
    [][ \A k \in Keys :
            hist'.key = k =>
                /\ resp'.code # 200 => idem' = idem
                /\ idem' # idem =>
                      idem' = Append(idem, [idempotency_key |-> k,
                                            response_data |-> resp'.body])
                /\ ~Cached(k) => resp'.op # "replay"
      ]_vars

\* an execute carrying k1 was refused because the amount exceeds the cap
\* that an earlier execute carrying k2 had left: k2 has its record, k1 none
C40_Witness ==
    /\ hist.key = "k1"
    /\ resp = Error("execute", 400, "Amount exceeds mandate cap")
    /\ ~Cached("k1")
    /\ Cached("k2")
    /\ hist.first["k2"].op = "execute"
    /\ hist.first["k1"] = NoResp

====
